---- MODULE Spec2Model ----
(***************************************************************************)
(* A model of solid-permissions: the Permission record, the PermissionSet  *)
(* (src/src/permission-set.js) with its `permissions` map and its two      *)
(* lookup indexes, and the access check.                                   *)
(*                                                                         *)
(* Permission objects are JavaScript objects that the set stores by        *)
(* reference, in the `permissions` map and in the indexes; one object may  *)
(* sit in several of them, and two places may hold different objects for   *)
(* the same agent and resource.  The model keeps a heap of objects and     *)
(* reference-valued maps, so that mergeWith() on one reference is seen     *)
(* through every other reference to the same object and through no other.  *)
(***************************************************************************)
EXTENDS Naturals, Sequences, FiniteSets, TLC

VARIABLES
  resourceUrl,   \* this.resourceUrl
  aclUrl,        \* this.aclUrl
  resourceType,  \* this.resourceType: CONTAINER or RESOURCE
  strictOrigin,  \* this.strictOrigin
  origin,        \* this.origin
  host,          \* this.host
  permissions,   \* this.permissions: hashFragment -> reference
  permsBy,       \* this.permsBy: [agents, groups], each <<webId, accessType, url>> -> reference
  heap,          \* the Permission objects: reference -> Permission
  groups,        \* this.groups: group uri -> GroupListing (its set of members)
  pending,       \* the checkAccess() call waiting on loadGroups(), or Idle
  last,          \* the operation that ran last, with its arguments and outcome
  nops,          \* how many operations that change the set ran
  nchecks,       \* how many checkAccess(), serialize(), equals() and save() calls were made
  saving,        \* the save() call waiting on serialize(), or NotSaving
  puts           \* the requests this.webClient.put() received, in order

vars == <<resourceUrl, aclUrl, resourceType, strictOrigin, origin, host,
          permissions, permsBy, heap, groups, pending, last, nops, nchecks,
          saving, puts>>

(***************************************************************************)
(* Bounds of the model                                                     *)
(***************************************************************************)
MaxOps == 2
MaxChecks == 2

(***************************************************************************)
(* Vocabulary: access modes, access types, the agent class "everyone"      *)
(***************************************************************************)
READ == "Read"
WRITE == "Write"
APPEND == "Append"
CONTROL == "Control"
Modes == {READ, WRITE, APPEND, CONTROL}
ALL_MODES == {READ, WRITE, CONTROL}
ACCESS_TO == "accessTo"
DEFAULT == "default"
INHERIT == TRUE
NOT_INHERIT == FALSE
EVERYONE == "http://xmlns.com/foaf/0.1/Agent"

DEFAULT_ACL_SUFFIX == ".acl"
DEFAULT_CONTENT_TYPE == "text/turtle"
RESOURCE == "resource"
CONTAINER == "container"
AGENT_INDEX == "agents"
GROUP_INDEX == "groups"

\* JavaScript's null / undefined, for a string-valued field or argument
Null == "null"

(***************************************************************************)
(* Strings: String.prototype.startsWith / endsWith, and the order that     *)
(* Array.prototype.sort() uses by default (by UTF-16 code unit)            *)
(***************************************************************************)
CharCode ==
  ("." :> 46) @@ ("/" :> 47) @@ ("1" :> 49) @@ ("2" :> 50) @@ ("a" :> 97) @@
  ("c" :> 99) @@ ("d" :> 100) @@ ("e" :> 101) @@ ("f" :> 102) @@
  ("i" :> 105) @@ ("l" :> 108) @@ ("o" :> 111) @@ ("s" :> 115)

startsWith(s, prefix) ==
  /\ Len(prefix) <= Len(s)
  /\ SubSeq(s, 1, Len(prefix)) = prefix

endsWith(s, suffix) ==
  /\ Len(suffix) <= Len(s)
  /\ SubSeq(s, Len(s) - Len(suffix) + 1, Len(s)) = suffix

Least(S) == CHOOSE i \in S : \A j \in S : i <= j

\* a sorts before b
SortsBefore(a, b) ==
  LET n == IF Len(a) < Len(b) THEN Len(a) ELSE Len(b)
      diff == {i \in 1..n : SubSeq(a, i, i) # SubSeq(b, i, i)}
  IN IF diff = {}
       THEN Len(a) < Len(b)
       ELSE CharCode[SubSeq(a, Least(diff), Least(diff))]
              < CharCode[SubSeq(b, Least(diff), Least(diff))]

\* variant of sortReverse(): keys.sort(), as a sequence
RECURSIVE sort(_)
sort(keys) ==
  IF keys = {} THEN << >>
  ELSE LET first == CHOOSE k \in keys : \A j \in keys \ {k} : SortsBefore(k, j)
       IN <<first>> \o sort(keys \ {first})

\* keys.sort().reverse(), as a sequence
RECURSIVE sortReverse(_)
sortReverse(keys) ==
  IF keys = {} THEN << >>
  ELSE LET top == CHOOSE k \in keys : \A j \in keys \ {k} : SortsBefore(j, k)
       IN <<top>> \o sortReverse(keys \ {top})

(***************************************************************************)
(* ACL urls                                                                *)
(***************************************************************************)
defaultIsAcl(uri) == endsWith(uri, DEFAULT_ACL_SUFFIX)

defaultAclUrlFor(resourceUri) ==
  IF defaultIsAcl(resourceUri)
    THEN resourceUri
    ELSE resourceUri \o DEFAULT_ACL_SUFFIX

aclUrlFor(resourceUri) == defaultAclUrlFor(resourceUri)

(***************************************************************************)
(* Maps (JavaScript objects used as hashmaps)                              *)
(***************************************************************************)
EmptyMap == [k \in {} |-> Null]
Put(map, key, value) ==
  [k \in DOMAIN map \cup {key} |-> IF k = key THEN value ELSE map[k]]
Delete(map, key) == [k \in DOMAIN map \ {key} |-> map[k]]
Values(map) == {map[k] : k \in DOMAIN map}

(***************************************************************************)
(* Permission                                                              *)
(***************************************************************************)
\* new Permission(resourceUrl, inherited)
NewPermission(url, inherited) ==
  [ resourceUrl |-> url,
    accessType |-> IF inherited THEN DEFAULT ELSE ACCESS_TO,
    agent |-> Null,
    group |-> Null,
    accessModes |-> {},
    originsAllowed |-> {},
    virtual |-> FALSE ]

isPublic(perm) == perm.group = EVERYONE
isGroup(perm) == perm.group # Null
isInherited(perm) == perm.accessType = DEFAULT
webId(perm) == IF perm.agent # Null THEN perm.agent ELSE perm.group

\* setGroup(group); throws when an agent is set
setGroupThrows(perm) == perm.agent # Null
setGroup(perm, group) == [perm EXCEPT !.group = group]
setPublic(perm) == setGroup(perm, EVERYONE)

\* setAgent(agent) for a string that is no mailto: link
setAgentThrows(perm, agent) ==
  IF agent = EVERYONE THEN setGroupThrows(perm) ELSE perm.group # Null
setAgent(perm, agent) ==
  LET p1 == IF agent = EVERYONE THEN setPublic(perm) ELSE perm
  IN [p1 EXCEPT !.agent = agent]

addMode(perm, modes) == [perm EXCEPT !.accessModes = @ \cup modes]
\* variant of removeMode(): removing Append takes Write with it
removeModeCascading(perm, modes) ==
  [perm EXCEPT !.accessModes =
     @ \ (modes \cup IF APPEND \in modes THEN {WRITE} ELSE {})]
removeMode(perm, modes) == [perm EXCEPT !.accessModes = @ \ modes]
addOrigin(perm, origins) == [perm EXCEPT !.originsAllowed = @ \cup origins]

allowsMode(perm, mode) ==
  \/ mode \in perm.accessModes
  \/ mode = APPEND /\ WRITE \in perm.accessModes
allowsRead(perm) == allowsMode(perm, READ)
allowsWrite(perm) == allowsMode(perm, WRITE)
allowsAppend(perm) == allowsMode(perm, APPEND)
allowsControl(perm) == allowsMode(perm, CONTROL)
allowsOrigin(perm, o) == o \in perm.originsAllowed
permIsEmpty(perm) == perm.accessModes = {}
isValid(perm) ==
  /\ webId(perm) # Null
  /\ perm.resourceUrl # Null
  /\ ~permIsEmpty(perm)

hashFragmentFor(id, url) == <<id, url>>
hashFragment(perm) == hashFragmentFor(webId(perm), perm.resourceUrl)

\* the value this.mergeWith(other) leaves in this
mergeWith(perm, other) ==
  [perm EXCEPT !.accessModes = @ \cup other.accessModes,
               !.originsAllowed = @ \cup other.originsAllowed]

clone(perm) == perm

permEquals(p, q) ==
  /\ p.resourceUrl = q.resourceUrl
  /\ p.accessType = q.accessType
  /\ webId(p) = webId(q)
  /\ isGroup(p) = isGroup(q)
  /\ p.accessModes = q.accessModes
  /\ p.originsAllowed = q.originsAllowed

(***************************************************************************)
(* The set's object graph: store = [permissions, agents, groups, heap]     *)
(*                                                                         *)
(* A reference names an object by where it is held.  An object with webId  *)
(* w, access type t and resource u can only be held by permissions[w,u],   *)
(* by agents[w][t][u] and by groups[w][t][u], so the first of these that   *)
(* holds it, with w, t and u, names it.  An operation works with the       *)
(* objects it creates under temporary names (NewRef, ImpliedRef), and     *)
(* when it ends the objects whose holders changed are renamed, or dropped  *)
(* when nothing holds them any more.                                       *)
(***************************************************************************)
Ref(kind, id, type, url) ==
  [kind |-> kind, webId |-> id, accessType |-> type, resourceUrl |-> url]
NoRef == Ref("none", Null, Null, Null)
NewRef == Ref("new", Null, Null, Null)
ImpliedRef == Ref("implied", Null, Null, Null)

Store(perms, by, objects) ==
  [permissions |-> perms, agents |-> by.agents, groups |-> by.groups,
   heap |-> objects]

indexOf(store, indexType) ==
  IF indexType = AGENT_INDEX THEN store.agents ELSE store.groups

heldBy(store, ref) ==
  IF ref \in Values(store.permissions) THEN "permissions"
  ELSE IF ref \in Values(store.agents) THEN AGENT_INDEX
  ELSE IF ref \in Values(store.groups) THEN GROUP_INDEX
  ELSE "none"

nameOf(store, ref) ==
  LET perm == store.heap[ref]
  IN Ref(heldBy(store, ref), webId(perm), perm.accessType, perm.resourceUrl)

\* the object held under ref gets the name its holders give it
rename(store, ref) ==
  LET name == nameOf(store, ref)
      in(map) == [k \in DOMAIN map |-> IF map[k] = ref THEN name ELSE map[k]]
  IN IF ref \notin DOMAIN store.heap THEN store
     ELSE [permissions |-> in(store.permissions),
           agents |-> in(store.agents),
           groups |-> in(store.groups),
           heap |-> [n \in (DOMAIN store.heap \ {ref}) \cup
                            (IF name.kind = "none" THEN {} ELSE {name}) |->
                       IF n = name THEN store.heap[ref] ELSE store.heap[n]]]

\* the objects an operation created get their names when it ends
normalize(store) == rename(rename(store, NewRef), ImpliedRef)

\* target.mergeWith(source), both objects of the heap
mergeObjects(store, target, source) ==
  [store EXCEPT !.heap[target] = mergeWith(@, store.heap[source])]

\* addToAgentIndex(permission) / addToGroupIndex(permission)
addToIndex(index, store, ref) ==
  LET perm == store.heap[ref]
      key == <<webId(perm), perm.accessType, perm.resourceUrl>>
  IN IF key \notin DOMAIN index
       THEN <<Put(index, key, ref), store>>
       ELSE <<index, mergeObjects(store, index[key], ref)>>

addToAgentIndex(store, ref) ==
  LET r == addToIndex(store.agents, store, ref)
  IN [r[2] EXCEPT !.agents = r[1]]

addToGroupIndex(store, ref) ==
  LET r == addToIndex(store.groups, store, ref)
  IN [r[2] EXCEPT !.groups = r[1]]

\* the body of addSinglePermission(perm) apart from the acl:Control rule
addSingleBefore(store, ref) ==
  LET hash == hashFragment(store.heap[ref])
  IN IF hash \in DOMAIN store.permissions
       THEN mergeObjects(store, store.permissions[hash], ref)
       ELSE [store EXCEPT !.permissions = Put(@, hash, ref)]

addSingleAfter(store, ref) ==
  LET s1 == addToAgentIndex(store, ref)
  IN IF isPublic(s1.heap[ref]) \/ isGroup(s1.heap[ref])
       THEN addToGroupIndex(s1, ref)
       ELSE s1

\* addControlPermissionsFor(perm): the implied permission is virtual, so the
\* addSinglePermission() call made for it does not come back here
impliedPermission(perm) ==
  addMode([clone(perm) EXCEPT !.resourceUrl = aclUrlFor(perm.resourceUrl),
                              !.virtual = TRUE],
          ALL_MODES)

addControlPermissionsFor(store, ref) ==
  LET s1 == [store EXCEPT !.heap = Put(@, ImpliedRef,
                                       impliedPermission(store.heap[ref]))]
  IN addSingleAfter(addSingleBefore(s1, ImpliedRef), ImpliedRef)

needsControlPermissions(perm) == ~perm.virtual /\ allowsControl(perm)

\* addSinglePermission(perm), for the object held under ref
addSingle(store, ref) ==
  LET s1 == addSingleBefore(store, ref)
      s2 == IF needsControlPermissions(s1.heap[ref])
              THEN addControlPermissionsFor(s1, ref)
              ELSE s1
  IN addSingleAfter(s2, ref)

\* addSinglePermission(perm) for a Permission object the caller just built
addSinglePermission(store, perm) ==
  normalize(addSingle([store EXCEPT !.heap = Put(@, NewRef, perm)], NewRef))

(***************************************************************************)
(* PermissionSet: lookups                                                  *)
(***************************************************************************)
TheStore == Store(permissions, permsBy, heap)

count(store) == Cardinality(DOMAIN store.permissions)
isEmpty(store) == count(store) = 0
allPermissions(store) == {store.heap[r] : r \in Values(store.permissions)}

\* variant of findPermByAgent(): the enclosing containers are gone through
\* before the exact acl:accessTo match
findPermByAgentInheritedFirst(store, id, url, indexType) ==
  LET index == indexOf(store, indexType)
      defaultAuths == {k[3] : k \in {x \in DOMAIN index :
                                       x[1] = id /\ x[2] = DEFAULT}}
      containers == sortReverse(defaultAuths)
      matching == {i \in 1..Len(containers) : startsWith(url, containers[i])}
  IN IF matching # {}
       THEN index[<<id, DEFAULT, containers[Least(matching)]>>]
     ELSE IF <<id, ACCESS_TO, url>> \in DOMAIN index
       THEN index[<<id, ACCESS_TO, url>>]
     ELSE NoRef

\* variant of findPermByAgent(): exact matches only
findPermByAgentExact(store, id, url, indexType) ==
  LET index == indexOf(store, indexType)
  IN IF <<id, ACCESS_TO, url>> \in DOMAIN index
       THEN index[<<id, ACCESS_TO, url>>]
     ELSE IF <<id, DEFAULT, url>> \in DOMAIN index
       THEN index[<<id, DEFAULT, url>>]
     ELSE NoRef

\* findPermByAgent(webId, resourceUrl, indexType): a reference, or NoRef
findPermByAgent(store, id, url, indexType) ==
  LET index == indexOf(store, indexType)
      defaultAuths == {k[3] : k \in {x \in DOMAIN index :
                                       x[1] = id /\ x[2] = DEFAULT}}
      containers == sortReverse(defaultAuths)
      matching == {i \in 1..Len(containers) : startsWith(url, containers[i])}
  IN IF ~\E k \in DOMAIN index : k[1] = id THEN NoRef
     ELSE IF <<id, ACCESS_TO, url>> \in DOMAIN index
       THEN index[<<id, ACCESS_TO, url>>]
     ELSE IF <<id, DEFAULT, url>> \in DOMAIN index
       THEN index[<<id, DEFAULT, url>>]
     ELSE IF matching # {}
       THEN index[<<id, DEFAULT, containers[Least(matching)]>>]
     ELSE NoRef

findPublicPerm(store, url) == findPermByAgent(store, EVERYONE, url, GROUP_INDEX)

\* variant of allowsPublic(): the public permission passes checkOrigin() too
allowsPublicFromOrigin(store, mode, url) ==
  LET publicPerm == findPermByAgent(store, EVERYONE, url, GROUP_INDEX)
  IN IF publicPerm = NoRef THEN FALSE
     ELSE /\ allowsMode(store.heap[publicPerm], mode)
          /\ (~strictOrigin \/ origin = Null \/ origin = host
                \/ allowsOrigin(store.heap[publicPerm], origin))

allowsPublic(store, mode, url) ==
  LET publicPerm == findPublicPerm(store, url)
  IN IF publicPerm = NoRef THEN FALSE
     ELSE allowsMode(store.heap[publicPerm], mode)

\* variant of checkOrigin(): the origin of the host is not trusted as such
checkOriginOfHostToo(perm) ==
  IF ~strictOrigin \/ origin = Null
    THEN TRUE
    ELSE allowsOrigin(perm, origin)

\* checkOrigin(permission), under the set's strictOrigin, origin and host
checkOrigin(perm) ==
  IF ~strictOrigin \/ origin = Null \/ origin = host
    THEN TRUE
    ELSE allowsOrigin(perm, origin)

\* variant of checkAccessForAgent(): the mode is looked up as it was added
checkAccessForAgentAsAdded(store, url, agentId, accessMode) ==
  LET perm == findPermByAgent(store, agentId, url, AGENT_INDEX)
  IN /\ perm # NoRef
     /\ checkOrigin(store.heap[perm])
     /\ accessMode \in store.heap[perm].accessModes

checkAccessForAgent(store, url, agentId, accessMode) ==
  LET perm == findPermByAgent(store, agentId, url, AGENT_INDEX)
  IN /\ perm # NoRef
     /\ checkOrigin(store.heap[perm])
     /\ allowsMode(store.heap[perm], accessMode)

hasMember(listing, agentId) == agentId \in listing

groupsForMember(cache, agentId) ==
  {groupWebId \in DOMAIN cache : hasMember(cache[groupWebId], agentId)}

\* variant of checkGroupAccess(): a group's permission grants whatever the
\* origin of the request
checkGroupAccessAnyOrigin(store, cache, url, agentId, accessMode) ==
  \E groupWebId \in groupsForMember(cache, agentId) :
    LET perm == findPermByAgent(store, groupWebId, url, AGENT_INDEX)
    IN perm # NoRef /\ allowsMode(store.heap[perm], accessMode)

checkGroupAccess(store, cache, url, agentId, accessMode) ==
  \E groupWebId \in groupsForMember(cache, agentId) :
    checkAccessForAgent(store, url, groupWebId, accessMode)

\* variant of groupUris(): the public agent class is never filtered out
groupUrisAll(store, excludePublic) == {k[1] : k \in DOMAIN store.groups}

groupUris(store, excludePublic) ==
  LET uris == {k[1] : k \in DOMAIN store.groups}
  IN IF excludePublic THEN uris \ {EVERYONE} ELSE uris

hasGroups(store) == groupUris(store, TRUE) # {}

isPermInherited == resourceType = CONTAINER

permissionFor(store, id, url) ==
  IF id = Null THEN NoRef
  ELSE LET hash == hashFragmentFor(id, IF url = Null THEN resourceUrl ELSE url)
       IN IF hash \in DOMAIN store.permissions
            THEN store.permissions[hash]
            ELSE NoRef

(***************************************************************************)
(* PermissionSet: removal                                                  *)
(***************************************************************************)
removeSinglePermission(store, ref) ==
  [store EXCEPT !.permissions = Delete(@, hashFragment(store.heap[ref]))]

\* variant of removePermission(): a permission left without modes stays
removePermissionKeeping(store, id, accessMode) ==
  LET perm == permissionFor(store, id, resourceUrl)
  IN IF perm = NoRef THEN store
     ELSE [store EXCEPT !.heap[perm] = removeMode(@, accessMode)]

removePermission(store, id, accessMode) ==
  LET perm == permissionFor(store, id, resourceUrl)
      s1 == [store EXCEPT !.heap[perm] = removeMode(@, accessMode)]
  IN IF perm = NoRef THEN store
     ELSE IF permIsEmpty(s1.heap[perm])
       THEN rename(removeSinglePermission(s1, perm), perm)
       ELSE s1

(***************************************************************************)
(* PermissionSet: the RDF graph, and the set built from one                *)
(***************************************************************************)
\* variant of rdfStatements(): every permission with a webId gives triples
rdfStatementsOfAny(perm) ==
  IF webId(perm) = Null THEN {}
  ELSE {<<hashFragment(perm), "rdf:type", "acl:Authorization">>}
         \cup {<<hashFragment(perm), "acl:mode", m>> : m \in perm.accessModes}

\* perm.rdfStatements(rdf): the triples of one acl:Authorization section,
\* none for a permission that is invalid or virtual
rdfStatements(perm) ==
  IF ~isValid(perm) \/ perm.virtual THEN {}
  ELSE LET fragment == hashFragment(perm)
       IN {<<fragment, "rdf:type", "acl:Authorization">>,
           <<fragment,
             IF isPublic(perm) THEN "acl:agentClass"
             ELSE IF isGroup(perm) THEN "acl:agentGroup"
             ELSE "acl:agent",
             webId(perm)>>,
           <<fragment,
             IF isInherited(perm) THEN "acl:default" ELSE "acl:accessTo",
             perm.resourceUrl>>}
          \cup {<<fragment, "acl:mode", m>> : m \in perm.accessModes}
          \cup {<<fragment, "acl:origin", o>> : o \in perm.originsAllowed}

buildGraph(store) == UNION {rdfStatements(perm) : perm \in allPermissions(store)}

\* graph.match(subject, predicate, object), Null matching anything
match(graph, subject, predicate, object) ==
  {t \in graph : /\ subject \in {Null, t[1]}
                 /\ predicate \in {Null, t[2]}
                 /\ object \in {Null, t[3]}}

isMailTo(agent) == startsWith(agent, "mailto:")

\* the Permission addPermissionFor() builds before it adds it
permissionBuiltFor(url, inherit, agent, isListing, accessModes, origins) ==
  LET perm == NewPermission(url, inherit)
      p1 == IF isListing THEN setGroup(perm, agent) ELSE setAgent(perm, agent)
  IN addOrigin(addMode(p1, accessModes), origins)

\* initFromGraph(graph): the Permissions it hands to addPermissionFor(), for
\* all the sections of the graph
sectionsOf(graph) ==
  LET typed == {t[1] : t \in match(graph, Null, "rdf:type", "acl:Authorization")}
  IN IF typed # {} THEN typed
     ELSE {t[1] : t \in {x \in graph : x[2] = "acl:mode"}}

importedFrom(graph, fragment) ==
  LET objects(predicate) ==
        {t[3] : t \in {x \in graph : x[1] = fragment /\ x[2] = predicate}}
      accessModes == objects("acl:mode")
      origins == objects("acl:origin")
      agentMatches == {a \in objects("acl:agent") : ~isMailTo(a)}
      publicMatches == objects("acl:agentClass") \cap {EVERYONE}
      groupMatches == objects("acl:agentGroup")
      allAgents == ((agentMatches \cup publicMatches) \X {FALSE})
                     \cup (groupMatches \X {TRUE})
      targets == (objects("acl:accessTo") \X {NOT_INHERIT})
                   \cup (objects("acl:default") \X {INHERIT})
                   \cup (objects("acl:defaultForNew") \X {INHERIT})
  IN {permissionBuiltFor(target[1], target[2], agent[1], agent[2],
                     accessModes, origins) :
        agent \in allAgents, target \in targets}

imported(graph) ==
  UNION {importedFrom(graph, fragment) : fragment \in sectionsOf(graph)}

\* the orders a set of things can be gone through in
RECURSIVE Orders(_)
Orders(S) ==
  IF S = {} THEN {<< >>}
  ELSE UNION {{<<first>> \o rest : rest \in Orders(S \ {first})} : first \in S}

\* addSinglePermission(perm) for the perms of a sequence, one after another
RECURSIVE addAll(_, _)
addAll(store, perms) ==
  IF perms = << >> THEN store
  ELSE addAll(addSinglePermission(store, Head(perms)), Tail(perms))

EmptyStore ==
  [permissions |-> EmptyMap, agents |-> EmptyMap, groups |-> EmptyMap,
   heap |-> EmptyMap]

\* new PermissionSet(resourceUrl, aclUrl, isContainer, { graph, rdf }), with
\* the sections of the graph met in the given order
initFromGraph(perms) == addAll(EmptyStore, perms)

\* this.equals(ps), for two sets with the same resourceUrl, aclUrl and
\* resource type
equals(store, other) ==
  /\ count(store) = count(other)
  /\ \A permKey \in DOMAIN store.permissions :
       /\ permKey \in DOMAIN other.permissions
       /\ permEquals(store.heap[store.permissions[permKey]],
                     other.heap[other.permissions[permKey]])

(***************************************************************************)
(* The inputs the operations are called with                               *)
(***************************************************************************)
Alice == "alice"
Bob == "bob"
Team == "team"
Accounting == "accounting"
ContainerUrl == "/docs/"
FileUrl == "/docs/file1"
Host == "https://host"
AppOrigin == "https://app"

\* new PermissionSet(resourceUrl, aclUrl, isContainer, { strictOrigin, origin, host })
SetArgs == {<<ContainerUrl, TRUE>>, <<FileUrl, FALSE>>}
OriginArgs == {<<FALSE, AppOrigin>>, <<TRUE, AppOrigin>>}
\* the lists of modes an operation is called with
ModeArgs == {{READ}, {WRITE}, {APPEND, CONTROL}}
\* addPermission(webId, accessMode, origin)
AddArgs ==
  ({Alice, EVERYONE} \X ModeArgs \X {{}})
    \cup ({Alice} \X ModeArgs \X {{AppOrigin}})
    \cup {<<Alice, {}, {}>>}
\* addGroupPermission(webId, accessMode)
GroupArgs == ({Team} \X {{READ}, {WRITE}}) \cup {<<Accounting, {READ}>>}
\* addSinglePermission(perm): the permissions a caller builds
SingleArgs ==
  { <<ContainerUrl, INHERIT, Alice>>, <<ContainerUrl, INHERIT, EVERYONE>>,
    <<FileUrl, NOT_INHERIT, Alice>>,
    <<aclUrlFor(FileUrl), NOT_INHERIT, Alice>> } \X ModeArgs
\* removePermission(webId, accessMode)
RemoveArgs == {Alice, Team, EVERYONE} \X ModeArgs
\* checkAccess(resourceUrl, agentId, accessMode, { fetchGraph })
CheckArgs ==
  {ContainerUrl, FileUrl, aclUrlFor(FileUrl)} \X {Alice, Bob} \X Modes
\* the members of a group listing, as fetched
Listings == {{Bob}}
\* what GroupListing.loadFrom() resolves to: a listing, or nothing
NoListing == [found |-> FALSE, members |-> {}]
LoadResults == {NoListing} \cup {[found |-> TRUE, members |-> l] : l \in Listings}

Idle == [url |-> Null, agentId |-> Null, mode |-> Null, uris |-> {}]
NotSaving == [aclUrl |-> Null, contentType |-> Null]

\* what is recorded of a call: its arguments, how it ended, and, for
\* serialize(), the graph handed to rdf.serialize()
Op(name, id, url, modes, outcome) ==
  [op |-> name, webId |-> id, resourceUrl |-> url, modes |-> modes,
   origins |-> {}, outcome |-> outcome, handed |-> {}]

(***************************************************************************)
(* new PermissionSet(resourceUrl, aclUrl, isContainer, options)            *)
(***************************************************************************)
Init ==
  /\ \E set \in SetArgs :
       /\ resourceUrl = set[1]
       /\ aclUrl = aclUrlFor(set[1])
       /\ resourceType = IF set[2] THEN CONTAINER ELSE RESOURCE
  /\ \E o \in OriginArgs :
       /\ strictOrigin = o[1]
       /\ origin = o[2]
  /\ host = Host
  /\ permissions = EmptyMap
  /\ permsBy = [agents |-> EmptyMap, groups |-> EmptyMap]
  /\ heap = EmptyMap
  /\ groups = EmptyMap
  /\ pending = Idle
  /\ last = Op("new", Null, resourceUrl, {}, "returned")
  /\ nops = 0
  /\ nchecks = 0
  /\ saving = NotSaving
  /\ puts = <<>>

Config == <<resourceUrl, aclUrl, resourceType, strictOrigin, origin, host>>
Web == <<saving, puts>>

SetStore(store) ==
  /\ permissions' = store.permissions
  /\ permsBy' = [agents |-> store.agents, groups |-> store.groups]
  /\ heap' = store.heap

\* The set is built, then consulted: the operations that change it run
\* before the first checkAccess()
CanChange ==
  /\ nops < MaxOps
  /\ nchecks = 0
  /\ pending = Idle

Changed(op) ==
  /\ last' = op
  /\ nops' = nops + 1
  /\ UNCHANGED <<Config, Web, groups, pending, nchecks>>

\* checkAccess(), serialize() and equals() leave the permissions as they
\* are, and only checkAccess() reads or changes the cached listings. A call
\* made after one that left the listings alone finds what a first call
\* finds: only a checkAccess() that has cached listings is followed by
\* another, and serialize() and equals() are called on the set as built
CanCheck ==
  /\ nchecks < MaxChecks
  /\ pending = Idle
  /\ nchecks = 0 \/ groups # EmptyMap

CanAsk ==
  /\ nchecks < MaxChecks
  /\ pending = Idle
  /\ nchecks = 0

Asked(op) ==
  /\ last' = op
  /\ nchecks' = nchecks + 1
  /\ UNCHANGED <<Config, Web, permissions, permsBy, heap, groups, pending, nops>>

(***************************************************************************)
(* The operations                                                          *)
(***************************************************************************)
\* addPermission(webId, accessMode, origin)
AddPermission(id, accessMode, origins) ==
  /\ CanChange
  /\ resourceUrl # Null
  /\ LET p0 == NewPermission(resourceUrl, isPermInherited)
         permission == addOrigin(addMode(setAgent(p0, id), accessMode), origins)
     IN SetStore(addSinglePermission(TheStore, permission))
  /\ Changed([Op("addPermission", id, resourceUrl, accessMode, "returned")
               EXCEPT !.origins = origins])

\* addGroupPermission(webId, accessMode)
AddGroupPermission(id, accessMode) ==
  /\ CanChange
  /\ resourceUrl # Null
  /\ LET p0 == NewPermission(resourceUrl, isPermInherited)
         perm == addMode(setGroup(p0, id), accessMode)
     IN SetStore(addSinglePermission(TheStore, perm))
  /\ Changed(Op("addGroupPermission", id, resourceUrl, accessMode, "returned"))

\* addSinglePermission(perm), perm a Permission the caller built
AddSinglePermission(url, inherit, id, accessMode) ==
  /\ CanChange
  /\ LET p0 == NewPermission(url, inherit)
         perm == addMode(setAgent(p0, id), accessMode)
     IN SetStore(addSinglePermission(TheStore, perm))
  /\ Changed(Op("addSinglePermission", id, url, accessMode, "returned"))

\* removePermission(webId, accessMode)
RemovePermission(id, accessMode) ==
  /\ CanChange
  /\ SetStore(removePermission(TheStore, id, accessMode))
  /\ Changed(Op("removePermission", id, resourceUrl, accessMode, "returned"))

\* checkAccess(resourceUrl, agentId, accessMode, options), up to the point
\* where it returns a settled promise or calls loadGroups(options); the
\* options are read by loadGroups() only: fetchGraph says whether
\* options.fetchGraph is given (this.rdf is)
\* a later check is explored when it reaches the group stage for a requester
\* some listing names: only there does the outcome depend on the listings
\* cached by the checks before it
CheckAccess(url, agentId, accessMode) ==
  /\ CanCheck
  /\ \/ nchecks = 0
     \/ /\ agentId \in UNION Listings
        /\ hasGroups(TheStore)
        /\ ~allowsPublic(TheStore, accessMode, url)
        /\ ~checkAccessForAgent(TheStore, url, agentId, accessMode)
  /\ nchecks' = nchecks + 1
  /\ LET call(outcome) ==
           Op("checkAccess", agentId, url, {accessMode}, outcome)
     IN IF allowsPublic(TheStore, accessMode, url)
          THEN last' = call("true") /\ UNCHANGED pending
        ELSE IF checkAccessForAgent(TheStore, url, agentId, accessMode)
          THEN last' = call("true") /\ UNCHANGED pending
        ELSE IF ~hasGroups(TheStore)
          THEN last' = call("false") /\ UNCHANGED pending
        ELSE \E fetchGraph \in BOOLEAN :
               IF ~fetchGraph
                 THEN last' = call("rejected") /\ UNCHANGED pending
                 ELSE /\ last' = call("pending")
                      /\ pending' = [url |-> url, agentId |-> agentId,
                                     mode |-> accessMode,
                                     uris |-> groupUris(TheStore, TRUE)]
  /\ UNCHANGED <<Config, Web, permissions, permsBy, heap, groups, nops>>

\* loadGroups(): every GroupListing.loadFrom() has settled, the listings that
\* loaded are cached, and checkAccess()'s then() runs checkGroupAccess()
storeListings(cache, loaded) ==
  [g \in DOMAIN cache \cup {u \in DOMAIN loaded : loaded[u].found} |->
     IF g \in DOMAIN loaded /\ loaded[g].found
       THEN loaded[g].members
       ELSE cache[g]]

LoadGroupsThen(loaded) ==
  /\ pending # Idle
  /\ groups' = storeListings(groups, loaded)
  /\ last' = [Op("checkAccess", pending.agentId, pending.url, {pending.mode},
                 IF checkGroupAccess(TheStore, groups', pending.url,
                                     pending.agentId, pending.mode)
                   THEN "true" ELSE "false")
               EXCEPT !.handed = {u \in DOMAIN loaded : ~loaded[u].found}]
  /\ pending' = Idle
  /\ UNCHANGED <<Config, Web, permissions, permsBy, heap, nops, nchecks>>

\* variant of serialize(): the callback goes on after reject(err)
serializeFallingThrough(rdf, answer) ==
  IF ~rdf THEN <<"rejected: no rdf library">>
  ELSE (IF answer = "err" THEN <<"rejected: err">> ELSE <<>>) \o
       (IF answer \in {"err", ""} THEN <<"rejected: error serializing">>
        ELSE <<"resolved">>)

\* the calls of reject() and resolve() that serialize(options) makes: rdf says
\* whether an RDF library is at hand (options.rdf || this.rdf), answer is
\* what rdf.serialize() calls back with ("err": an error, otherwise the result)
serialize(rdf, answer) ==
  IF ~rdf THEN <<"rejected: no rdf library">>
  ELSE IF answer = "err" THEN <<"rejected: err">>
  ELSE IF answer = "" THEN <<"rejected: error serializing">>
  ELSE <<"resolved">>

\* serialize(options); the promise settles as the first call says
Serialize(rdfs, answers) ==
  /\ CanAsk
  /\ LET graph == buildGraph(TheStore)
         call(outcome) == Op("serialize", Null, aclUrl, {}, outcome)
     IN \E rdf \in rdfs, answer \in answers :
          LET settled == serialize(rdf, answer)
              given == [rdf |-> rdf, answer |-> IF rdf THEN answer ELSE Null,
                        settled |-> settled]
          IN Asked(given @@ [call(Head(settled)) EXCEPT
                               !.handed = IF rdf THEN graph ELSE {}])

\* ps.equals(ps2), for the set ps2 built from the parsed output of
\* ps.serialize(), whose sections the graph gives in some order
EqualsRebuilt ==
  /\ CanAsk
  /\ \E perms \in Orders(imported(buildGraph(TheStore))) :
       Asked(Op("equals", Null, resourceUrl, {},
                IF equals(TheStore, initFromGraph(perms))
                  THEN "true" ELSE "false"))

Next ==
  \/ \E a \in AddArgs : AddPermission(a[1], a[2], a[3])
  \/ \E a \in GroupArgs : AddGroupPermission(a[1], a[2])
  \/ \E a \in SingleArgs : AddSinglePermission(a[1][1], a[1][2], a[1][3], a[2])
  \/ \E a \in RemoveArgs : RemovePermission(a[1], a[2])
  \/ \E a \in CheckArgs : CheckAccess(a[1], a[2], a[3])
  \/ \E loaded \in [pending.uris -> LoadResults] : LoadGroupsThen(loaded)
  \/ Serialize(BOOLEAN, {"err", "", "text"})
  \/ EqualsRebuilt

Spec == Init /\ [][Next]_vars

(***************************************************************************)
(* save(): a set constructed with or without an aclUrl, filled and saved   *)
(***************************************************************************)
JsonLd == "application/ld+json"
OtherAclUrl == "/acl/file1.acl"

\* new PermissionSet(resourceUrl, aclUrl, isContainer, options), the aclUrl
\* given or left out
InitSave ==
  /\ \E set \in SetArgs, given \in BOOLEAN :
       /\ resourceUrl = set[1]
       /\ aclUrl = IF given THEN aclUrlFor(set[1]) ELSE Null
       /\ resourceType = IF set[2] THEN CONTAINER ELSE RESOURCE
       /\ last = [given |-> given] @@
                 Op("new", Null, resourceUrl, {}, "returned")
  /\ strictOrigin = FALSE
  /\ origin = AppOrigin
  /\ host = Host
  /\ permissions = EmptyMap
  /\ permsBy = [agents |-> EmptyMap, groups |-> EmptyMap]
  /\ heap = EmptyMap
  /\ groups = EmptyMap
  /\ pending = Idle
  /\ nops = 0
  /\ nchecks = 0
  /\ saving = NotSaving
  /\ puts = <<>>

SaveArgs == [aclUrl : {Null, OtherAclUrl}, contentType : {Null, JsonLd}]
Responses == {"resolved", "rejected: xhr"}

\* save(options) up to the call of serialize(): how the call goes on, and
\* the target and content type it goes on with
save(options, webClient) ==
  LET target == IF options.aclUrl # Null THEN options.aclUrl ELSE aclUrl
      contentType == IF options.contentType # Null THEN options.contentType
                     ELSE DEFAULT_CONTENT_TYPE
  IN IF target = Null
       THEN [outcome |-> "rejected: unknown target url", saving |-> NotSaving]
     ELSE IF ~webClient
       THEN [outcome |-> "rejected: no web client", saving |-> NotSaving]
     ELSE [outcome |-> "pending",
           saving |-> [aclUrl |-> target, contentType |-> contentType]]

\* variant of thenPut(): the PUT does not wait for what serialize() says
thenPutAnyway(call, settled, result) ==
  <<[url |-> call.aclUrl, body |-> result, contentType |-> call.contentType]>>

\* the then() of save(): the requests webClient.put() gets once serialize()
\* has settled
thenPut(call, settled, result) ==
  IF Head(settled) = "resolved"
    THEN <<[url |-> call.aclUrl, body |-> result,
            contentType |-> call.contentType]>>
    ELSE <<>>

\* ps.save(options), this.webClient set or not
Save(options, webClient) ==
  /\ nchecks < MaxChecks
  /\ pending = Idle
  /\ saving = NotSaving
  /\ LET call == save(options, webClient)
     IN /\ saving' = call.saving
        /\ last' = [options |-> options, webClient |-> webClient] @@
                   Op("save", Null, aclUrl, {}, call.outcome)
  /\ nchecks' = nchecks + 1
  /\ UNCHANGED <<Config, permissions, permsBy, heap, groups, pending, nops,
                 puts>>

\* serialize({ contentType }) settles and save() goes on: a PUT whose
\* outcome is the outcome of save(), or the rejection of serialize()
SaveSerialized(rdf, answer, response) ==
  /\ saving # NotSaving
  /\ LET settled == serialize(rdf, answer)
         requests == thenPut(saving, settled, answer)
     IN /\ puts' = puts \o requests
        /\ last' = [rdf |-> rdf, answer |-> IF rdf THEN answer ELSE Null,
                    settled |-> settled, requests |-> requests] @@
                   Op("save", Null, aclUrl, {},
                      IF requests = <<>> THEN Head(settled) ELSE response)
  /\ saving' = NotSaving
  /\ UNCHANGED <<Config, permissions, permsBy, heap, groups, pending, nops,
                 nchecks>>

NextSave ==
  \/ \E a \in AddArgs : AddPermission(a[1], a[2], a[3])
  \/ \E options \in SaveArgs, webClient \in BOOLEAN : Save(options, webClient)
  \/ \E rdf \in BOOLEAN, answer \in {"err", "", "text"}, response \in Responses :
       SaveSerialized(rdf, answer, response)

SpecSave == InitSave /\ [][NextSave]_vars

(***************************************************************************)
(* initFromGraph(): a set filled from parsed acl:Authorization sections    *)
(***************************************************************************)
MailAlice == "mailto:alice@example.com"
\* container URLs around ContainerUrl: one that encloses it, one beside it
RootUrl == "/"
FilesUrl == "/files/"

\* what one acl:Authorization section says: its acl:agent values, whether it
\* has acl:agentClass foaf:Agent, its acl:agentGroup, acl:accessTo and
\* acl:default values, its acl:mode and its acl:origin values
Section(agents, public, agentGroups, accessTo, default, modes, origins) ==
  [agents |-> agents, public |-> public, groups |-> agentGroups,
   accessTo |-> accessTo, default |-> default, modes |-> modes,
   origins |-> origins]

SectionAgents ==
  {<<{Alice}, FALSE, {}>>, <<{Alice, MailAlice}, FALSE, {}>>,
   <<{}, TRUE, {}>>, <<{}, FALSE, {Team}>>, <<{}, FALSE, {}>>}
SectionTargets ==
  {<<{}, {}>>, <<{ContainerUrl}, {}>>, <<{ContainerUrl}, {ContainerUrl}>>,
   <<{FileUrl}, {ContainerUrl}>>, <<{}, {RootUrl, ContainerUrl, FilesUrl}>>}
SectionModes == {<<{READ}, {}>>, <<{WRITE}, {AppOrigin}>>}
Sections ==
  {Section(a[1], a[2], a[3], t[1], t[2], m[1], m[2]) :
     a \in SectionAgents, t \in SectionTargets, m \in SectionModes}

\* the triples of a section with the given subject
graphOf(fragment, section) ==
  {<<fragment, "rdf:type", "acl:Authorization">>}
    \cup {<<fragment, "acl:agent", a>> : a \in section.agents}
    \cup (IF section.public
            THEN {<<fragment, "acl:agentClass", EVERYONE>>} ELSE {})
    \cup {<<fragment, "acl:agentGroup", g>> : g \in section.groups}
    \cup {<<fragment, "acl:accessTo", u>> : u \in section.accessTo}
    \cup {<<fragment, "acl:default", u>> : u \in section.default}
    \cup {<<fragment, "acl:mode", m>> : m \in section.modes}
    \cup {<<fragment, "acl:origin", o>> : o \in section.origins}

\* the sequences of a sequence of sequences put end to end
RECURSIVE flatten(_)
flatten(seqs) ==
  IF seqs = << >> THEN << >> ELSE Head(seqs) \o flatten(Tail(seqs))

\* initFromGraph(graph), for one section: the Permissions it hands to
\* addPermissionFor(), one after another: the agents, then the public
\* matches, then the groups, and for each of them the acl:accessTo targets
\* and then the inherited ones; graph.match() gives the values of one
\* predicate in some order
importedInOrder(graph, fragment) ==
  LET objects(predicate) ==
        {t[3] : t \in {x \in graph : x[1] = fragment /\ x[2] = predicate}}
      accessModes == objects("acl:mode")
      origins == objects("acl:origin")
      agentMatches == {a \in objects("acl:agent") : ~isMailTo(a)}
      publicMatches == objects("acl:agentClass") \cap {EVERYONE}
      groupMatches == objects("acl:agentGroup")
      built(agent, isListing, targets, inherit) ==
        [i \in 1..Len(targets) |->
           permissionBuiltFor(targets[i], inherit, agent, isListing,
                              accessModes, origins)]
  IN {flatten([i \in 1..Len(allAgents) |->
                 built(allAgents[i][1], allAgents[i][2], accessTo, NOT_INHERIT)
                   \o built(allAgents[i][1], allAgents[i][2], default, INHERIT)
                   \o built(allAgents[i][1], allAgents[i][2], forNew, INHERIT)]) :
        allAgents \in
          {[i \in 1..Len(as) |-> <<as[i], FALSE>>]
             \o [i \in 1..Len(ps) |-> <<ps[i], FALSE>>]
             \o [i \in 1..Len(gs) |-> <<gs[i], TRUE>>] :
               as \in Orders(agentMatches), ps \in Orders(publicMatches),
               gs \in Orders(groupMatches)},
        accessTo \in Orders(objects("acl:accessTo")),
        default \in Orders(objects("acl:default")),
        forNew \in Orders(objects("acl:defaultForNew"))}

\* ps.initFromGraph(graph), for the graph of one section
InitFromGraph(section) ==
  /\ CanChange
  /\ LET graph == graphOf("#section", section)
     IN \E fragment \in sectionsOf(graph) :
          \E perms \in importedInOrder(graph, fragment) :
            SetStore(addAll(TheStore, perms))
  /\ Changed([section |-> section] @@
             Op("initFromGraph", Null, resourceUrl, section.modes, "returned"))

NextImport == \E section \in Sections : InitFromGraph(section)

SpecImport == Init /\ [][NextImport]_vars

(***************************************************************************)
(* A Permission a caller builds, and then adds to the set                  *)
(*                                                                         *)
(* The object is held by the caller only, under the name NewRef, until     *)
(* addSinglePermission(perm) hands it to the set.                          *)
(***************************************************************************)
Built == heap[NewRef]
Building == NewRef \in DOMAIN heap

\* the request has a foreign origin, no origin, or the origin of the host
PermOriginArgs == OriginArgs \cup {<<TRUE, Null>>, <<TRUE, Host>>}

InitPerm ==
  /\ \E set \in SetArgs :
       /\ resourceUrl = set[1]
       /\ aclUrl = aclUrlFor(set[1])
       /\ resourceType = IF set[2] THEN CONTAINER ELSE RESOURCE
  /\ \E o \in PermOriginArgs :
       /\ strictOrigin = o[1]
       /\ origin = o[2]
  /\ host = Host
  /\ permissions = EmptyMap
  /\ permsBy = [agents |-> EmptyMap, groups |-> EmptyMap]
  /\ heap = (NewRef :> NewPermission(resourceUrl, isPermInherited))
  /\ groups = EmptyMap
  /\ pending = Idle
  /\ last = Op("new Permission", Null, resourceUrl, {}, "returned")
  /\ nops = 0
  /\ nchecks = 0
  /\ saving = NotSaving
  /\ puts = <<>>

Called(op) ==
  /\ last' = op
  /\ UNCHANGED <<Config, Web, permissions, permsBy, groups, pending, nops, nchecks>>

\* perm.setAgent(agent)
SetAgent(agent) ==
  /\ Building
  /\ IF setAgentThrows(Built, agent)
       THEN /\ UNCHANGED heap
            /\ Called(Op("setAgent", agent, Built.resourceUrl, {}, "thrown"))
       ELSE /\ heap' = [heap EXCEPT ![NewRef] = setAgent(@, agent)]
            /\ Called(Op("setAgent", agent, Built.resourceUrl, {}, "returned"))

\* perm.setGroup(group)
SetGroup(group) ==
  /\ Building
  /\ IF setGroupThrows(Built)
       THEN /\ UNCHANGED heap
            /\ Called(Op("setGroup", group, Built.resourceUrl, {}, "thrown"))
       ELSE /\ heap' = [heap EXCEPT ![NewRef] = setGroup(@, group)]
            /\ Called(Op("setGroup", group, Built.resourceUrl, {}, "returned"))

\* perm.addMode(mode)
AddMode(mode) ==
  /\ Building
  /\ heap' = [heap EXCEPT ![NewRef] = addMode(@, {mode})]
  /\ Called(Op("addMode", webId(Built), Built.resourceUrl, {mode}, "returned"))

\* perm.addOrigin(origin)
AddOrigin(o) ==
  /\ Building
  /\ o \notin Built.originsAllowed
  /\ heap' = [heap EXCEPT ![NewRef] = addOrigin(@, {o})]
  /\ Called([Op("addOrigin", webId(Built), Built.resourceUrl, {}, "returned")
               EXCEPT !.origins = {o}])

\* perm.removeMode(mode)
RemoveMode(mode) ==
  /\ Building
  /\ heap' = [heap EXCEPT ![NewRef] = removeMode(@, {mode})]
  /\ Called(Op("removeMode", webId(Built), Built.resourceUrl, {mode},
               "returned"))

\* perm.allowsMode(mode)
AllowsMode(mode) ==
  /\ Building
  /\ UNCHANGED heap
  /\ Called(Op("allowsMode", webId(Built), Built.resourceUrl, {mode},
               IF allowsMode(Built, mode) THEN "true" ELSE "false"))

\* addSinglePermission(perm) for the Permission built; hashFragment() throws
\* for a Permission without a webId
AddBuilt ==
  /\ CanChange
  /\ Building
  /\ webId(Built) # Null
  /\ SetStore(normalize(addSingle(TheStore, NewRef)))
  /\ Changed(Op("addSinglePermission", webId(Built), Built.resourceUrl,
                Built.accessModes, "returned"))

NextPerm ==
  \/ \E agent \in {Alice, EVERYONE} : SetAgent(agent)
  \/ \E group \in {Team, EVERYONE} : SetGroup(group)
  \/ \E mode \in Modes : AddMode(mode)
  \/ \E mode \in Modes : RemoveMode(mode)
  \/ \E mode \in Modes : AllowsMode(mode)
  \/ AddOrigin(AppOrigin)
  \/ AddBuilt
  \/ \E a \in CheckArgs : CheckAccess(a[1], a[2], a[3])
  \/ \E loaded \in [pending.uris -> LoadResults] : LoadGroupsThen(loaded)

SpecPerm == InitPerm /\ [][NextPerm]_vars

(***************************************************************************)
(* Properties                                                              *)
(***************************************************************************)
\* the permission checkAccess() finds for the requester of the last call
DirectPerm == findPermByAgent(TheStore, last.webId, last.resourceUrl, AGENT_INDEX)
\* the permission checkAccess() finds for Everyone in the last call
PublicPerm == findPublicPerm(TheStore, last.resourceUrl)
Checked == last.op = "checkAccess" /\ last.outcome \in {"true", "false"}
AskedFor(mode) == last.modes = {mode}

\* C2: allowsMode(m) is true exactly when m was added explicitly, or m is
\* Append and Write was added explicitly: only Write allows Write and Append,
\* only Append allows Append and not Write, only Control allows none of Read,
\* Write and Append; and checkAccess() answers an Append query with true
\* from a permission that grants Write
C2_AllowsMode ==
  /\ last.op = "allowsMode" =>
       \A m \in last.modes :
         (last.outcome = "true") <=>
           \/ m \in Built.accessModes
           \/ m = APPEND /\ WRITE \in Built.accessModes
  /\ Building /\ Built.accessModes = {WRITE} =>
       allowsWrite(Built) /\ allowsAppend(Built)
  /\ Building /\ Built.accessModes = {APPEND} =>
       allowsAppend(Built) /\ ~allowsWrite(Built)
  /\ Building /\ Built.accessModes = {CONTROL} =>
       ~allowsRead(Built) /\ ~allowsWrite(Built) /\ ~allowsAppend(Built)
  /\ Checked /\ AskedFor(APPEND) =>
       /\ PublicPerm # NoRef /\ WRITE \in heap[PublicPerm].accessModes =>
            last.outcome = "true"
       /\ DirectPerm # NoRef /\ WRITE \in heap[DirectPerm].accessModes
            /\ checkOrigin(heap[DirectPerm]) =>
            last.outcome = "true"

C2_Witness ==
  /\ Checked /\ AskedFor(APPEND) /\ last.outcome = "true"
  /\ PublicPerm = NoRef
  /\ DirectPerm # NoRef
  /\ heap[DirectPerm].accessModes = {WRITE}

\* C3: removeMode() removes the mode it is given when it is present and
\* nothing else: removing Append from a Write-only permission leaves Write
\* and Append allowed, removing Write then ends Append; removing Write from
\* an Append-only permission changes nothing, removing Append then ends it
C3_RemoveMode ==
  [][last'.op = "removeMode" /\ Building /\ Building' =>
       LET before == Built
           after == Built'
           m == CHOOSE x \in Modes : last'.modes = {x}
       IN /\ after = [before EXCEPT !.accessModes = @ \ {m}]
          /\ m = APPEND /\ before.accessModes = {WRITE} =>
               allowsWrite(after) /\ allowsAppend(after)
          /\ m = WRITE /\ before.accessModes = {WRITE} =>
               ~allowsAppend(after) /\ ~allowsWrite(after)
          /\ m = WRITE /\ before.accessModes = {APPEND} =>
               after = before /\ allowsAppend(after)
          /\ m = APPEND /\ before.accessModes = {APPEND} =>
               ~allowsAppend(after)]_vars

C3_Witness ==
  /\ last.op = "removeMode" /\ AskedFor(APPEND)
  /\ Building
  /\ Built.accessModes = {WRITE}
  /\ allowsAppend(Built)

AddOps == {"addPermission", "addGroupPermission", "addSinglePermission"}
LastMode == CHOOSE mode \in Modes : last.modes = {mode}
Held == allPermissions(TheStore)

\* the three stages of checkAccess() for the arguments of the last call
PublicStage ==
  PublicPerm # NoRef /\ allowsMode(heap[PublicPerm], LastMode)

DirectStage ==
  /\ DirectPerm # NoRef
  /\ allowsMode(heap[DirectPerm], LastMode)
  /\ checkOrigin(heap[DirectPerm])

GroupStage(originChecked) ==
  \E groupWebId \in DOMAIN groups :
    /\ last.webId \in groups[groupWebId]
    /\ LET perm == findPermByAgent(TheStore, groupWebId, last.resourceUrl,
                                   AGENT_INDEX)
       IN /\ perm # NoRef
          /\ allowsMode(heap[perm], LastMode)
          /\ originChecked => checkOrigin(heap[perm])

\* C4 (as stated): adding a permission for the same (agent, resource) pair
\* twice to a new set, with any two lists of modes and of origins, leaves
\* count = 1 and one stored permission for the pair whose modes are the
\* union of the two mode lists and whose origins are the union of the two
\* origin lists
C4_AddTwice ==
  [][/\ nops = 1 /\ nops' = 2
     /\ last.op \in AddOps /\ last'.op \in AddOps
     /\ last.webId = last'.webId /\ last.resourceUrl = last'.resourceUrl
     => /\ count(TheStore') = 1
        /\ LET permKey == hashFragmentFor(last'.webId, last'.resourceUrl)
               perm == heap'[permissions'[permKey]]
           IN /\ perm.accessModes = last.modes \cup last'.modes
              /\ perm.originsAllowed = last.origins \cup last'.origins]_vars

\* C5: when the set holds for one agent an AccessTo permission on R and a
\* Default permission on a container whose URL is a prefix of R, the lookup
\* for (agent, R) returns the AccessTo permission, and checkAccess() denies
\* for R a mode that only the Default permission grants
AccessToUnderDefault(id, url) ==
  /\ hashFragmentFor(id, url) \in DOMAIN permissions
  /\ heap[permissions[hashFragmentFor(id, url)]].accessType = ACCESS_TO
  /\ \E container \in Held :
       /\ webId(container) = id
       /\ container.accessType = DEFAULT
       /\ container.resourceUrl # url
       /\ startsWith(url, container.resourceUrl)

C5_AccessToFirst ==
  /\ \A permKey \in DOMAIN permissions :
       AccessToUnderDefault(permKey[1], permKey[2]) =>
         LET found == findPermByAgent(TheStore, permKey[1], permKey[2],
                                      AGENT_INDEX)
         IN /\ found # NoRef
            /\ heap[found].accessType = ACCESS_TO
            /\ heap[found].resourceUrl = permKey[2]
            /\ webId(heap[found]) = permKey[1]
  /\ Checked /\ AccessToUnderDefault(last.webId, last.resourceUrl) =>
       LET accessTo ==
             heap[permissions[hashFragmentFor(last.webId, last.resourceUrl)]]
       IN /\ ~allowsMode(accessTo, LastMode)
          /\ ~PublicStage
          /\ ~GroupStage(FALSE)
          => last.outcome = "false"

C5_Witness ==
  /\ Checked /\ last.outcome = "false"
  /\ AccessToUnderDefault(last.webId, last.resourceUrl)
  /\ \E container \in Held :
       /\ webId(container) = last.webId
       /\ container.accessType = DEFAULT
       /\ startsWith(last.resourceUrl, container.resourceUrl)
       /\ allowsMode(container, LastMode)

\* C6: in a set made for a container C, when the set holds a permission of A
\* on C that grants Read and none of A on C + 'file1', checkAccess(C +
\* 'file1', A, Read) resolves to true provided that permission passes the
\* origin check; for an agent B when the set holds no permission of B, none
\* of Everyone and none of a group, it resolves to false
InheritedCase ==
  /\ resourceType = CONTAINER
  /\ Checked /\ AskedFor(READ)
  /\ last.resourceUrl = resourceUrl \o "file1"

GrantOnContainer ==
  /\ hashFragmentFor(last.webId, resourceUrl) \in DOMAIN permissions
  /\ READ \in heap[permissions[hashFragmentFor(last.webId, resourceUrl)]].accessModes
  /\ hashFragmentFor(last.webId, last.resourceUrl) \notin DOMAIN permissions

NoGrantAnywhere ==
  \A perm \in Held : webId(perm) # last.webId /\ ~isGroup(perm)

PublicReadOnly ==
  /\ PublicPerm # NoRef
  /\ PublicPerm.kind = "permissions"
  /\ heap[PublicPerm].accessModes = {READ}

C1_CheckAccess ==
  Checked =>
    (last.outcome = "true" <=> PublicStage \/ DirectStage \/ GroupStage(TRUE))

\* C1 (as stated): stage (3) without the origin check
C1_CheckAccess_AsStated ==
  Checked =>
    (last.outcome = "true" <=> PublicStage \/ DirectStage \/ GroupStage(FALSE))

C1_Witness ==
  /\ Checked /\ last.outcome = "true"
  /\ ~PublicStage /\ ~DirectStage
  /\ GroupStage(TRUE)

\* C8 (as stated): whenever a non-virtual permission of A on R whose modes
\* include Control is added, the set afterwards holds for A on aclUrlFor(R)
\* a permission with virtual = true and modes exactly {Read, Write, Control}
C8_ImpliedControl ==
  [][last'.op \in AddOps /\ CONTROL \in last'.modes =>
       LET permKey == hashFragmentFor(last'.webId, aclUrlFor(last'.resourceUrl))
       IN /\ permKey \in DOMAIN permissions'
          /\ heap'[permissions'[permKey]].virtual
          /\ heap'[permissions'[permKey]].accessModes = {READ, WRITE, CONTROL}]_vars

\* C9: the graph serialize() hands to the serializer has no statement of a
\* permission of the set that is virtual or invalid: every statement is of a
\* permission that is non-virtual and has a resourceUrl, an agent or group,
\* and a mode
C9_Serialized ==
  last.op = "serialize" =>
    /\ \A perm \in Held :
         perm.virtual \/ ~isValid(perm) =>
           {t \in last.handed : t[1] = hashFragment(perm)} = {}
    /\ \A t \in last.handed :
         \E perm \in Held :
           /\ ~perm.virtual /\ isValid(perm)
           /\ t[1] = hashFragment(perm)

C9_Witness ==
  /\ last.op = "serialize" /\ last.outcome = "resolved"
  /\ last.handed # {}
  /\ \E perm \in Held : perm.virtual
  /\ \E perm \in Held : ~isValid(perm)

\* C10 (as stated): for a set ps whose permissions are valid and give
\* statements to serialize, the set ps2 built from the parsed output of
\* ps.serialize() for the same resourceUrl, aclUrl and container flag has
\* ps.equals(ps2) = true
C10_RoundTrip ==
  /\ last.op = "equals"
  /\ \A perm \in Held : isValid(perm)
  /\ buildGraph(TheStore) # {}
  => last.outcome = "true"

\* C11: removePermission(webId, modes) acts on the permission keyed by
\* (webId, the set's resourceUrl): without one the set is unchanged; when
\* modes remain, count is unchanged and the permission's mode set has lost
\* the removed modes and nothing else; when none remains, count decreases by
\* one and permissionFor(webId) returns no permission
Removes(after(_, _)) ==
      last'.op = "removePermission" =>
       LET permKey == hashFragmentFor(last'.webId, resourceUrl)
       IN IF permKey \notin DOMAIN permissions
            THEN UNCHANGED <<permissions, permsBy, heap>>
          ELSE LET before == heap[permissions[permKey]]
                   left == before.accessModes \ last'.modes
               IN IF left # {}
                    THEN /\ count(TheStore') = count(TheStore)
                         /\ permKey \in DOMAIN permissions'
                         /\ after(heap'[permissions'[permKey]], left)
                    ELSE /\ count(TheStore') = count(TheStore) - 1
                         /\ permissionFor(TheStore', last'.webId, Null) = NoRef

ModesLeft(perm, left) == perm.accessModes = left

C11_RemovePermission == [][Removes(ModesLeft)]_vars

\* C11 (as stated): when modes remain, the permission no longer allows the
\* removed modes
RemovedNotAllowed(perm, left) == \A mode \in last'.modes : ~allowsMode(perm, mode)

C11_RemovePermission_AsStated == [][Removes(RemovedNotAllowed)]_vars

C11_Witness ==
  /\ last.op = "removePermission" /\ APPEND \in last.modes
  /\ permissionFor(TheStore, last.webId, Null) # NoRef
  /\ heap[permissionFor(TheStore, last.webId, Null)].accessModes = {WRITE}

\* C12: a Permission never has both an agent and a group set: setGroup on
\* a permission with an agent throws and leaves agent and group unchanged,
\* and setAgent on a permission with a group throws and leaves them unchanged
Thrown == last'.outcome = "thrown" /\ Built'.agent = Built.agent /\ Built'.group = Built.group

C12_AgentOrGroup ==
  [][Building' =>
       /\ ~(Built'.agent # Null /\ Built'.group # Null)
       /\ (last'.op = "setGroup" /\ Built.agent # Null => Thrown)
       /\ (last'.op = "setAgent" /\ Built.group # Null => Thrown)]_vars

\* C13: on a new Permission, setAgent(EVERYONE) leaves the permission as
\* setPublic() does: public, with the group EVERYONE and no agent
IsNew(perm) == perm = NewPermission(perm.resourceUrl, isInherited(perm))

C13_SetAgentEveryone ==
  [][last'.op = "setAgent" /\ last'.webId = EVERYONE /\ IsNew(Built) =>
       /\ Built' = setPublic(Built)
       /\ isPublic(Built') /\ Built'.group = EVERYONE /\ Built'.agent = Null]_vars

\* C14: groupUris() returns every key of the group index except EVERYONE,
\* and EVERYONE too when called with excludePublic = false; hasGroups() is
\* true exactly when groupUris() is non-empty, so it is false for a set
\* whose only group-index entry is the public one
GroupIndexKeys == {k[1] : k \in DOMAIN permsBy.groups}

C14_GroupUris ==
  /\ groupUris(TheStore, TRUE) = GroupIndexKeys \ {EVERYONE}
  /\ groupUris(TheStore, FALSE) = GroupIndexKeys
  /\ hasGroups(TheStore) <=> groupUris(TheStore, TRUE) # {}
  /\ GroupIndexKeys = {EVERYONE} => ~hasGroups(TheStore)

C14_Witness == GroupIndexKeys = {EVERYONE, Team}

\* C15: when checkAccess loads several group listings and the fetch of one
\* fails or returns nothing, the call still resolves: the requester is not
\* taken for a member of that group, the listings of the other groups are
\* stored, and the result is true exactly when one of the other groups
\* grants the mode
C15_FailedListing ==
  [][pending # Idle /\ pending' = Idle /\ Cardinality(pending.uris) > 1
       /\ last'.handed # {} =>
       LET loadedUris == pending.uris \ last'.handed
           grants(g) ==
             /\ hasMember(groups'[g], pending.agentId)
             /\ checkAccessForAgent(TheStore, pending.url, g, pending.mode)
       IN /\ last'.outcome \in {"true", "false"}
          /\ \A g \in last'.handed :
               g \notin groupsForMember(groups', pending.agentId)
          /\ \A g \in loadedUris : g \in DOMAIN groups'
          /\ last'.outcome = "true" <=> \E g \in loadedUris : grants(g)]_vars

\* C16: at the group stage (no public grant, no direct grant, a non-public
\* group permission in the set) a checkAccess without fetchGraph is rejected,
\* nothing is fetched and the group cache is unchanged; when both earlier
\* stages deny and the set has no non-public group permission, checkAccess
\* resolves to false and is not rejected
HasGroupPermission ==
  \E perm \in allPermissions(TheStore) : isGroup(perm) /\ ~isPublic(perm)

StagesDeny(hasGroupPermission) ==
  last'.op = "checkAccess" /\ nchecks' = nchecks + 1 =>
    LET url == last'.resourceUrl
        mode == CHOOSE m \in last'.modes : TRUE
        denied == /\ ~allowsPublic(TheStore, mode, url)
                  /\ ~checkAccessForAgent(TheStore, url, last'.webId, mode)
    IN /\ denied /\ hasGroupPermission =>
            /\ last'.outcome \in {"rejected", "pending"}
            /\ last'.outcome = "rejected" =>
                 pending' = Idle /\ groups' = groups
       /\ denied /\ ~hasGroupPermission => last'.outcome = "false"

C16_GroupStage == [][StagesDeny(HasGroupPermission)]_vars

\* C17: serialize() is rejected with 'Cannot save - no rdf library' when no
\* RDF library is at hand, with the serializer's error when it reports one,
\* and when the serializer returns an empty result; otherwise it resolves
\* with the serializer's result; each call settles exactly once
C17_Serialize ==
  last.op = "serialize" =>
    /\ Len(last.settled) = 1
    /\ last.outcome =
         CASE ~last.rdf -> "rejected: no rdf library"
           [] last.rdf /\ last.answer = "err" -> "rejected: err"
           [] last.rdf /\ last.answer = "" -> "rejected: error serializing"
           [] OTHER -> "resolved"

C17_Witness ==
  /\ last.op = "serialize" /\ last.rdf /\ last.answer = "err"
  /\ last.outcome = "rejected: err"

\* C18: save() issues a PUT only after serialize() has resolved, and then
\* exactly one, to the ACL URL with the serialized text and the content type
\* (text/turtle by default); it is rejected with 'Cannot save - unknown
\* target url' when the ACL URL is unknown, with 'Cannot save - no web
\* client' when no web client is set, and when serialization fails, each
\* time without a PUT
SaveCalled ==
  last'.op = "save" /\ nchecks' = nchecks + 1 =>
    LET options == last'.options
        target == IF options.aclUrl # Null THEN options.aclUrl ELSE aclUrl
    IN /\ puts' = puts
       /\ target = Null =>
            /\ last'.outcome = "rejected: unknown target url"
            /\ saving' = NotSaving
       /\ target # Null /\ ~last'.webClient =>
            /\ last'.outcome = "rejected: no web client"
            /\ saving' = NotSaving
       /\ target # Null /\ last'.webClient =>
            /\ saving'.aclUrl = target
            /\ saving'.contentType =
                 IF options.contentType = Null THEN "text/turtle"
                 ELSE options.contentType

SaveSettled ==
  saving # NotSaving /\ saving' = NotSaving =>
    IF last'.settled = <<"resolved">>
      THEN puts' = Append(puts, [url |-> saving.aclUrl, body |-> last'.answer,
                                 contentType |-> saving.contentType])
      ELSE /\ puts' = puts
           /\ last'.outcome \in {"rejected: no rdf library", "rejected: err",
                                 "rejected: error serializing"}

C18_Save ==
  [][/\ SaveCalled
     /\ SaveSettled
     /\ puts' # puts => saving # NotSaving /\ last'.settled = <<"resolved">>]_vars

C18_Witness ==
  /\ Len(puts) = 2
  /\ puts[1].contentType = "text/turtle" /\ puts[1].url = aclUrl
  /\ puts[2].contentType = JsonLd /\ puts[2].url = OtherAclUrl
  /\ last.op = "save" /\ last.outcome = "resolved"

\* C19: a PermissionSet created with a resourceUrl and no aclUrl has the
\* aclUrl resourceUrl + '.acl', or the resourceUrl itself when that ends
\* with '.acl'; deriving the ACL URL of an ACL URL returns it unchanged
C19_DefaultAclUrl ==
  last.op = "new" /\ ~last.given =>
    /\ aclUrl = IF endsWith(resourceUrl, ".acl") THEN resourceUrl
                ELSE resourceUrl \o ".acl"
    /\ aclUrlFor(aclUrlFor(resourceUrl)) = aclUrlFor(resourceUrl)

\* C20: after any sequence of adds and removals the agent index and the
\* group index describe exactly the permissions of the `permissions` map:
\* every object an index holds is an entry of the map, every entry is held
\* by the agent index, and by the group index exactly when it is a group or
\* public permission; a permission deleted for having no modes left is not
\* found by findPermByAgent any more and gives groupUris() no key
Indexed == Values(permsBy.agents) \cup Values(permsBy.groups)

\* (checked on the sets without implied permissions, C8's subject)
C20_IndexesMatch ==
  (\A ref \in DOMAIN heap : ~heap[ref].virtual) =>
  /\ Indexed \subseteq Values(permissions)
  /\ \A ref \in Values(permissions) :
       /\ ref \in Values(permsBy.agents)
       /\ ref \in Values(permsBy.groups) <=>
            isGroup(heap[ref]) \/ isPublic(heap[ref])
  /\ \A id \in {Alice, Team, Accounting, EVERYONE}, indexType \in {AGENT_INDEX, GROUP_INDEX} :
       LET found == findPermByAgent(TheStore, id, resourceUrl, indexType)
       IN found # NoRef => found \in Values(permissions)
  /\ \A uri \in groupUris(TheStore, FALSE) :
       \E ref \in Values(permissions) : webId(heap[ref]) = uri

\* C21: checkAccess issues no group-listing fetch and resolves without
\* waiting whenever the public check grants, the direct check grants, or the
\* set has no non-public group permission; a fetch is issued only when both
\* earlier stages denied and a non-public group permission exists
FetchOnlyFor(hasGroupPermission) ==
  last'.op = "checkAccess" /\ nchecks' = nchecks + 1 =>
    LET url == last'.resourceUrl
        mode == CHOOSE m \in last'.modes : TRUE
        granted == \/ allowsPublic(TheStore, mode, url)
                   \/ checkAccessForAgent(TheStore, url, last'.webId, mode)
    IN /\ granted \/ ~hasGroupPermission =>
            pending' = Idle /\ last'.outcome # "pending"
       /\ pending' # Idle => ~granted /\ hasGroupPermission

C21_NoFetch == [][FetchOnlyFor(HasGroupPermission)]_vars

\* C22: once a checkAccess has loaded the listing of a group into the group
\* cache, a later checkAccess that reaches the group stage does not fetch
\* that group again and goes by the cached listing
C22_NoRefetch ==
  [][/\ pending = Idle /\ pending' # Idle =>
          pending'.uris \cap DOMAIN groups = {}
     /\ pending # Idle /\ pending' = Idle =>
          \A g \in DOMAIN groups : groups'[g] = groups[g]]_vars

\* C23: in the direct check and in the group check a permission that allows
\* the mode grants only if the origin check passes: it passes when strict
\* origin is off, when the request has no origin, when the origin is the
\* host, and otherwise only when the origin is among the permission's
\* allowed origins
OriginPasses(perm) ==
  \/ ~strictOrigin
  \/ origin = Null
  \/ origin = host
  \/ origin \in perm.originsAllowed

GrantsFrom(id) ==
  LET perm == findPermByAgent(TheStore, id, last.resourceUrl, AGENT_INDEX)
  IN /\ perm # NoRef
     /\ allowsMode(heap[perm], LastMode)
     /\ OriginPasses(heap[perm])

C23_OriginCheck ==
  Checked /\ ~PublicStage =>
    (last.outcome = "true" <=>
       \/ GrantsFrom(last.webId)
       \/ \E g \in groupsForMember(groups, last.webId) : GrantsFrom(g))

C23_Witness ==
  /\ Checked /\ ~PublicStage /\ last.outcome = "false"
  /\ strictOrigin /\ origin = AppOrigin
  /\ DirectPerm # NoRef
  /\ allowsMode(heap[DirectPerm], LastMode)
  /\ AppOrigin \notin heap[DirectPerm].originsAllowed

\* ---- bulk import ----

Imported == nops = 1 /\ last.op = "initFromGraph"

\* the pairs of a section: its agent, public and group entries that are not
\* mailto: values, times its acl:accessTo and acl:default targets
SectionPairs(section) ==
  ({a \in section.agents : ~isMailTo(a)}
     \cup (IF section.public THEN {EVERYONE} ELSE {})
     \cup section.groups)
  \X ((section.accessTo \X {ACCESS_TO}) \cup (section.default \X {DEFAULT}))

\* C24: the import of one section into an empty set adds exactly one
\* permission per pair (non-mailto agent, group or public entry) x (accessTo
\* or default target), with the section's modes and origins, AccessTo for
\* the accessTo targets and Default for the default targets; no mailto:
\* value becomes the agent of a permission or a key of an index; a section
\* with no agent or no target adds nothing
C24_BulkImport ==
  Imported =>
    LET pairs == SectionPairs(last.section)
    IN /\ Cardinality(Held) = Cardinality(pairs)
       /\ \A pair \in pairs :
            \E perm \in Held :
              /\ webId(perm) = pair[1]
              /\ perm.resourceUrl = pair[2][1]
              /\ perm.accessType = pair[2][2]
              /\ perm.accessModes = last.section.modes
              /\ perm.originsAllowed = last.section.origins
       /\ \A perm \in Held : ~isMailTo(webId(perm))
       /\ \A key \in DOMAIN permsBy.agents \cup DOMAIN permsBy.groups :
            ~isMailTo(key[1])

\* ---- the container scan of findPermByAgent ----

\* the container URLs of the Default permissions indexed for id
DefaultContainers(id) ==
  {key[3] : key \in {k \in DOMAIN permsBy.agents :
                       k[1] = id /\ k[2] = DEFAULT}}

Longest(urls) == CHOOSE c \in urls : \A d \in urls : Len(d) <= Len(c)

LookupUrls == {RootUrl, ContainerUrl, FileUrl, FilesUrl}

\* C25: when the lookup for (id, url) finds no AccessTo match and no exact
\* Default match, it returns the Default permission of the longest indexed
\* container URL that is a prefix of url, and nothing when no indexed
\* container URL is a prefix of url
C25_LongestPrefix ==
  \A id \in {Alice, EVERYONE, Team} : \A url \in LookupUrls :
    LET prefixes == {c \in DefaultContainers(id) : startsWith(url, c)}
        found == findPermByAgent(TheStore, id, url, AGENT_INDEX)
    IN /\ <<id, ACCESS_TO, url>> \notin DOMAIN permsBy.agents
       /\ url \notin DefaultContainers(id)
       => IF prefixes = {} THEN found = NoRef
          ELSE found = permsBy.agents[<<id, DEFAULT, Longest(prefixes)>>]

\* the lookup for a file met a container beside it, the container that
\* holds it and the root, and gave the permission of the container
C25_Witness ==
  /\ last.op = "initFromGraph"
  /\ DefaultContainers(Alice) = {RootUrl, ContainerUrl, FilesUrl}
  /\ <<Alice, ACCESS_TO, FileUrl>> \notin DOMAIN permsBy.agents
  /\ findPermByAgent(TheStore, Alice, FileUrl, AGENT_INDEX)
       = permsBy.agents[<<Alice, DEFAULT, ContainerUrl>>]

\* ---- implied permissions ----

\* C26: an agent holds a virtual permission on the policy-resource URL of R
\* only if the set holds a non-virtual permission for that agent on R that
\* allows Control
C26_ImpliedNeedsControl ==
  \A ref \in Values(permissions) \cup Indexed :
    heap[ref].virtual =>
      \E perm \in Held :
        /\ ~perm.virtual
        /\ webId(perm) = webId(heap[ref])
        /\ aclUrlFor(perm.resourceUrl) = heap[ref].resourceUrl
        /\ allowsMode(perm, CONTROL)

\* the non-virtual permissions of the set are, after an add, what the
\* explicit calls made of them: the added key has the modes it had and the
\* added ones, every other key what it had
ExplicitOnly ==
  last'.op \in AddOps /\ nops' = nops + 1 =>
    LET added == hashFragmentFor(last'.webId, last'.resourceUrl)
    IN \A key \in DOMAIN permissions' :
         LET perm == heap'[permissions'[key]]
             had == IF key \in DOMAIN permissions
                      THEN heap[permissions[key]].accessModes ELSE {}
         IN ~perm.virtual =>
              /\ perm.resourceUrl = key[2]
              /\ perm.accessModes =
                   (IF key = added THEN had \cup last'.modes ELSE had)

\* C27: the synthesis of the implied Control permission never changes a
\* non-virtual permission: after any add every non-virtual permission has
\* the modes, resourceUrl and virtual flag that the explicit add and remove
\* calls for its key produced, also when its resource is itself a policy
\* resource and when an explicit permission on the policy-resource URL
\* exists for the same agent
C27_ImpliedLeavesExplicit == [][ExplicitOnly]_vars

\* ---- equal sets ----

\* what checkAccess(resourceUrl, agentId, accessMode) resolves to on a set
\* whose group cache, once the listings are loaded, is the given one
checkAccessWith(store, cache, url, agentId, accessMode) ==
  \/ allowsPublic(store, accessMode, url)
  \/ checkAccessForAgent(store, url, agentId, accessMode)
  \/ /\ hasGroups(store)
     /\ checkGroupAccess(store, cache, url, agentId, accessMode)

\* the sets that the import of one section builds
OtherSets ==
  {initFromGraph(perms) :
     perms \in UNION {importedInOrder(graphOf("#section", section), "#section") :
                        section \in Sections}}

Caches == {EmptyMap} \cup {(Team :> listing) : listing \in Listings}

\* C28: two sets with the same origin configuration and the same group
\* cache for which equals() returns true give the same checkAccess result
\* for every resource URL, requester id and mode
C28_EqualSetsSameAccess ==
  \A other \in OtherSets :
    equals(TheStore, other) =>
      \A url \in LookupUrls : \A id \in {Alice, Bob} : \A mode \in Modes :
        \A cache \in Caches :
          checkAccessWith(TheStore, cache, url, id, mode)
            = checkAccessWith(other, cache, url, id, mode)

\* ---- group permissions ----

\* the set holds a public permission, or a permission whose agent is id
HasOwnPermission(id) ==
  \E perm \in Held : isPublic(perm) \/ (~isGroup(perm) /\ perm.agent = id)

\* C29: a permission whose principal is a group grants access only to the
\* requesters that the cached listing of the group names: for a requester
\* that no cached listing names and that has no public or individual
\* permission, checkAccess resolves to false, also when the requester id is
\* the URL of the group
C29_GroupGrantsMembersOnly ==
  \A id \in {Alice, Bob, Team, Accounting} :
    /\ groupsForMember(groups, id) = {}
    /\ ~HasOwnPermission(id)
    => \A url \in LookupUrls : \A mode \in Modes :
         ~checkAccessWith(TheStore, groups, url, id, mode)

\* ---- the public check and the origin ----

ForeignOrigin == strictOrigin /\ origin # Null /\ origin # host

\* C30: the public check does not consult the origin check: under strict
\* origin, with a foreign origin that the public permission does not list,
\* a public permission that allows the mode makes checkAccess resolve to
\* true, whereas the same mode granted to the requester individually, by a
\* permission that does not list the origin, is denied
C30_PublicIgnoresOrigin ==
  Checked /\ ForeignOrigin =>
    /\ /\ PublicPerm # NoRef
       /\ allowsMode(heap[PublicPerm], LastMode)
       /\ origin \notin heap[PublicPerm].originsAllowed
       => last.outcome = "true"
    /\ /\ ~PublicStage
       /\ DirectPerm # NoRef
       /\ allowsMode(heap[DirectPerm], LastMode)
       /\ origin \notin heap[DirectPerm].originsAllowed
       /\ groupsForMember(groups, last.webId) = {}
       => last.outcome = "false"

C30_Witness ==
  /\ Checked /\ ForeignOrigin /\ last.outcome = "true"
  /\ PublicPerm # NoRef
  /\ allowsMode(heap[PublicPerm], LastMode)
  /\ origin \notin heap[PublicPerm].originsAllowed
  /\ last.webId # EVERYONE

====
